---- MODULE Spec2Model ----
(***************************************************************************)
(* Model of the ElasticSearch /_bulk ingestion handler                     *)
(* (RequestHandler, readBulkRequest, readBulkLine and the timestamp        *)
(* helpers of package elasticsearch).                                      *)
(*                                                                         *)
(* One request is followed from the entry of RequestHandler to its         *)
(* return.  The request body is not fixed in advance: every sc.Scan()      *)
(* call draws the next line (or the end of the stream, or a scanner        *)
(* error) from the environment, so that the behaviours of the model are    *)
(* the runs of the handler over every stream within the bounds.            *)
(***************************************************************************)
EXTENDS Integers, Sequences, FiniteSets, TLC

(***************************************************************************)
(* Bounds of the model.                                                    *)
(***************************************************************************)
\* the largest number of command lines a stream holds
MaxRows == 1002
\* the largest number of consecutive blank lines before a command
MaxBlank == 1
\* the number of rows at which the batch reports NeedFlush
FlushRows == 3
\* the requests that read concurrently
MaxRequests == 3
\* the concurrency units of the process-wide pool
PoolCapacity == 2
\* the readBulkLine calls one concurrent request makes
MaxAttempts == 2
\* the largest number of fields of a log message
MaxFields == 3

(***************************************************************************)
(* Program constants.                                                      *)
(***************************************************************************)
\* `n >= 1000` of readBulkRequest
CheckpointRows == 1000

(***************************************************************************)
(* Lines.  A line is its text, a sequence of tokens on which               *)
(* strings.Contains is decided, and what logjson's parser makes of it:     *)
(* an error or the ordered field list.  A field value is a sequence of     *)
(* characters.                                                             *)
(***************************************************************************)
TokCreate == "\"create\""
TokIndex == "\"index\""
TokOther == "other"

\* p.ParseLogMessage(line): an error, or p.Fields
Invalid == [valid |-> FALSE, fields |-> <<>>]
Doc(fields) == [valid |-> TRUE, fields |-> fields]

V17 == <<"1", "7">>
VBad == <<"1", "x">>
VTooBig == <<"9", "2", "2", "3", "3", "7", "2", "0", "3", "6", "8", "5", "5">>
VDate == <<"2", "0", "2", "4", "-", "0", "1", "-", "1", "5">>
VBadDate == <<"2", "0", "2", "4", "-", "1", "3", "-", "1", "5">>
VRfc == <<"2", "0", "2", "4", "-", "0", "1", "-", "1", "5", "T", "1", "0", ":", "0", "0", ":", "0", "0", "Z">>

Fld(name, value) == [Name |-> name, Value |-> value]

Line(text, json) == [text |-> text, json |-> json]

EmptyLine == Line(<<>>, Invalid)

Lines ==
    { EmptyLine,
      Line(<<TokCreate>>, Doc(<<>>)),
      Line(<<TokIndex>>, Doc(<<>>)),
      Line(<<TokOther, TokCreate>>, Invalid),
      Line(<<TokOther>>, Invalid),
      Line(<<TokOther>>, Doc(<<>>)),
      Line(<<TokOther>>, Doc(<<Fld("_time", V17), Fld("m", VBad)>>)),
      Line(<<TokOther>>, Doc(<<Fld("m", VBad), Fld("_time", VBad)>>)),
      Line(<<TokOther>>, Doc(<<Fld("_time", VTooBig)>>)),
      Line(<<TokOther>>, Doc(<<Fld("ts", VDate), Fld("_time", VRfc)>>)),
      Line(<<TokOther>>, Doc(<<Fld("ts", VBadDate), Fld("_time", V17)>>)) }


(***************************************************************************)
(* strconv.ParseInt(s, 10, 64), time.Parse and the range guards, decided   *)
(* on the decimal digits so that 64-bit values need no 64-bit arithmetic.  *)
(***************************************************************************)
Digits == {"0", "1", "2", "3", "4", "5", "6", "7", "8", "9"}

DigitVal(c) ==
    CASE c = "0" -> 0 [] c = "1" -> 1 [] c = "2" -> 2 [] c = "3" -> 3
      [] c = "4" -> 4 [] c = "5" -> 5 [] c = "6" -> 6 [] c = "7" -> 7
      [] c = "8" -> 8 [] c = "9" -> 9

AllDigits(s) == \A i \in DOMAIN s : s[i] \in Digits

RECURSIVE StripZeros(_)
StripZeros(s) ==
    IF Len(s) > 0 /\ s[1] = "0" THEN StripZeros(Tail(s)) ELSE s

\* a < b on digit sequences without leading zeros
DecLess(a, b) ==
    \/ Len(a) < Len(b)
    \/ /\ Len(a) = Len(b)
       /\ \E i \in DOMAIN a :
            /\ DigitVal(a[i]) < DigitVal(b[i])
            /\ \A j \in 1..(i - 1) : a[j] = b[j]

\* math.MaxInt64 = 9223372036854775807; -math.MinInt64 = 9223372036854775808
MaxInt64Mag ==
    <<"9", "2", "2", "3", "3", "7", "2", "0", "3", "6", "8", "5", "4", "7", "7", "5", "8", "0", "7">>
MinInt64Mag ==
    <<"9", "2", "2", "3", "3", "7", "2", "0", "3", "6", "8", "5", "4", "7", "7", "5", "8", "0", "8">>
\* int64(math.MaxInt64)/1e6 = 9223372036854 = -(int64(math.MinInt64)/1e6)
MaxMillisMag ==
    <<"9", "2", "2", "3", "3", "7", "2", "0", "3", "6", "8", "5", "4">>

\* the sign and the magnitude strconv.ParseInt reads, or an error
ParseInt(s) ==
    LET signed == Len(s) > 0 /\ s[1] \in {"+", "-"}
        neg == Len(s) > 0 /\ s[1] = "-"
        body == IF signed THEN Tail(s) ELSE s
        mag == StripZeros(body)
    IN  IF Len(body) = 0 \/ ~AllDigits(body)
        THEN [err |-> TRUE, neg |-> FALSE, mag |-> <<>>]
        ELSE IF DecLess(IF neg THEN MinInt64Mag ELSE MaxInt64Mag, mag)
        THEN [err |-> TRUE, neg |-> FALSE, mag |-> <<>>]
        ELSE [err |-> FALSE, neg |-> neg /\ Len(mag) > 0, mag |-> mag]

Num2(s, i) == 10 * DigitVal(s[i]) + DigitVal(s[i + 1])
Num4(s, i) == 100 * Num2(s, i) + Num2(s, i + 2)

IsLeap(y) == (y % 4 = 0 /\ y % 100 # 0) \/ y % 400 = 0

DaysIn(y, m) ==
    IF m = 2 THEN (IF IsLeap(y) THEN 29 ELSE 28)
    ELSE IF m \in {4, 6, 9, 11} THEN 30 ELSE 31

\* characters i..i+9 of s are a calendar date YYYY-MM-DD
IsDateAt(s, i) ==
    /\ Len(s) >= i + 9
    /\ \A k \in {0, 1, 2, 3, 5, 6, 8, 9} : s[i + k] \in Digits
    /\ s[i + 4] = "-" /\ s[i + 7] = "-"
    /\ Num2(s, i + 5) \in 1..12
    /\ Num2(s, i + 8) >= 1
    /\ Num2(s, i + 8) <= DaysIn(Num4(s, i), Num2(s, i + 5))

\* characters i..i+4 of s are hh:mm
IsHourMinAt(s, i) ==
    /\ Len(s) >= i + 4
    /\ \A k \in {0, 1, 3, 4} : s[i + k] \in Digits
    /\ s[i + 2] = ":"
    /\ Num2(s, i) <= 23 /\ Num2(s, i + 3) <= 59

\* time.Parse("2006-01-02", s) succeeds
ParseDateOK(s) == Len(s) = 10 /\ IsDateAt(s, 1)

RECURSIVE SkipDigits(_, _)
SkipDigits(s, i) ==
    IF i <= Len(s) /\ s[i] \in Digits THEN SkipDigits(s, i + 1) ELSE i

\* time.Parse(time.RFC3339, s) succeeds: date, 'T', hh:mm:ss, an optional
\* fraction of a second, then 'Z' or a numeric zone offset
ParseRFC3339OK(s) ==
    /\ IsDateAt(s, 1)
    /\ Len(s) >= 20
    /\ s[11] = "T"
    /\ IsHourMinAt(s, 12)
    /\ s[17] = ":" /\ s[18] \in Digits /\ s[19] \in Digits
    /\ Num2(s, 18) <= 59
    /\ LET z == IF s[20] = "." THEN SkipDigits(s, 21) ELSE 20
       IN  /\ (s[20] = "." => z > 21)
           /\ z <= Len(s)
           /\ \/ s[z] = "Z" /\ Len(s) = z
              \/ s[z] \in {"+", "-"} /\ Len(s) = z + 5 /\ IsHourMinAt(s, z + 1)

(***************************************************************************)
(* parseElasticsearchTimestamp: the branch the shape of s selects, whether *)
(* that branch fails, and the nanoseconds returned.  An int64 is its sign  *)
(* and its decimal magnitude; overflow says that the 64-bit result is not  *)
(* the product.  The UnixNano of a parsed time is named by the text parsed.*)
(***************************************************************************)
Int64(neg, mag, overflow) ==
    [kind |-> "int", neg |-> neg, mag |-> mag, overflow |-> overflow, of |-> <<>>]
UnixNano(s) ==
    [kind |-> "unixnano", neg |-> FALSE, mag |-> <<>>, overflow |-> FALSE, of |-> s]
Zero == Int64(FALSE, <<>>, FALSE)

\* the magnitude of m * 1e6
Times1e6(mag) ==
    IF mag = <<>> THEN <<>> ELSE mag \o <<"0", "0", "0", "0", "0", "0">>

\* `n *= 1e6` on an int64
Mul1e6(r) ==
    LET product == Times1e6(r.mag)
    IN  Int64(r.neg, product,
              DecLess(IF r.neg THEN MinInt64Mag ELSE MaxInt64Mag, product))

\* the two guards without `n < int64(math.MinInt64)/1e6`
MillisInRangeNoLower(r) == ~(~r.neg /\ DecLess(MaxMillisMag, r.mag))

\* neither `n > int64(math.MaxInt64)/1e6` nor `n < int64(math.MinInt64)/1e6`
MillisInRange(r) ==
    /\ ~(~r.neg /\ DecLess(MaxMillisMag, r.mag))
    /\ ~(r.neg /\ DecLess(MaxMillisMag, r.mag))

\* the dispatch with the '-' looked for one character early
parseElasticsearchTimestampFourthChar(s) ==
    IF Len(s) < 10 \/ s[4] # "-"
    THEN LET r == ParseInt(s)
         IN  IF r.err THEN [branch |-> "millis", err |-> TRUE, nanos |-> Zero]
             ELSE IF ~MillisInRange(r)
             THEN [branch |-> "millis", err |-> TRUE, nanos |-> Zero]
             ELSE [branch |-> "millis", err |-> FALSE, nanos |-> Mul1e6(r)]
    ELSE IF Len(s) = 10
    THEN IF ParseDateOK(s)
         THEN [branch |-> "date", err |-> FALSE, nanos |-> UnixNano(s)]
         ELSE [branch |-> "date", err |-> TRUE, nanos |-> Zero]
    ELSE IF ParseRFC3339OK(s)
         THEN [branch |-> "rfc3339", err |-> FALSE, nanos |-> UnixNano(s)]
         ELSE [branch |-> "rfc3339", err |-> TRUE, nanos |-> Zero]

parseElasticsearchTimestamp(s) ==
    IF Len(s) < 10 \/ s[5] # "-"
    THEN LET r == ParseInt(s)
         IN  IF r.err THEN [branch |-> "millis", err |-> TRUE, nanos |-> Zero]
             ELSE IF ~MillisInRange(r)
             THEN [branch |-> "millis", err |-> TRUE, nanos |-> Zero]
             ELSE [branch |-> "millis", err |-> FALSE, nanos |-> Mul1e6(r)]
    ELSE IF Len(s) = 10
    THEN IF ParseDateOK(s)
         THEN [branch |-> "date", err |-> FALSE, nanos |-> UnixNano(s)]
         ELSE [branch |-> "date", err |-> TRUE, nanos |-> Zero]
    ELSE IF ParseRFC3339OK(s)
         THEN [branch |-> "rfc3339", err |-> FALSE, nanos |-> UnixNano(s)]
         ELSE [branch |-> "rfc3339", err |-> TRUE, nanos |-> Zero]

\* FirstNamed that goes on to the last field of that name
RECURSIVE FirstNamedLast(_, _, _)
FirstNamedLast(fs, name, i) ==
    IF i > Len(fs) THEN 0
    ELSE LET later == FirstNamedLast(fs, name, i + 1)
         IN  IF later # 0 THEN later
             ELSE IF fs[i].Name = name THEN i ELSE 0

\* the index of the first field of that name from i on, 0 when there is none
RECURSIVE FirstNamed(_, _, _)
FirstNamed(fs, name, i) ==
    IF i > Len(fs) THEN 0
    ELSE IF fs[i].Name = name THEN i
    ELSE FirstNamed(fs, name, i + 1)

\* extractTimestampFromFields without `f.Value = ""`
extractTimestampFromFieldsKeepsValue(tf, fs) ==
    LET i == FirstNamed(fs, tf, 1)
    IN  IF i = 0
        THEN [err |-> FALSE, now |-> TRUE, nanos |-> Zero, fields |-> fs]
        ELSE LET r == parseElasticsearchTimestamp(fs[i].Value)
             IN  IF r.err
                 THEN [err |-> TRUE, now |-> FALSE, nanos |-> Zero, fields |-> fs]
                 ELSE [err |-> FALSE, now |-> FALSE, nanos |-> r.nanos, fields |-> fs]

\* extractTimestampFromFields: the first field named tf decides; now says
\* that time.Now().UnixNano() was returned
extractTimestampFromFields(tf, fs) ==
    LET i == FirstNamed(fs, tf, 1)
    IN  IF i = 0
        THEN [err |-> FALSE, now |-> TRUE, nanos |-> Zero, fields |-> fs]
        ELSE LET r == parseElasticsearchTimestamp(fs[i].Value)
             IN  IF r.err
                 THEN [err |-> TRUE, now |-> FALSE, nanos |-> Zero, fields |-> fs]
                 ELSE [err |-> FALSE, now |-> FALSE, nanos |-> r.nanos,
                       fields |-> [fs EXCEPT ![i] = [@ EXCEPT !.Value = <<>>]]]

\* updateMessageFieldName without the return after the first match
updateMessageFieldNameAll(mf, fs) ==
    IF mf = "" THEN fs
    ELSE [i \in DOMAIN fs |->
            IF fs[i].Name = mf THEN [fs[i] EXCEPT !.Name = "_msg"] ELSE fs[i]]

\* updateMessageFieldName that moves the renamed field to the front
updateMessageFieldNameFront(mf, fs) ==
    IF mf = "" THEN fs
    ELSE LET i == FirstNamed(fs, mf, 1)
         IN  IF i = 0 THEN fs
             ELSE <<[fs[i] EXCEPT !.Name = "_msg"]>>
                    \o SubSeq(fs, 1, i - 1) \o SubSeq(fs, i + 1, Len(fs))

\* updateMessageFieldName: the first field named mf is renamed "_msg"
updateMessageFieldName(mf, fs) ==
    IF mf = "" THEN fs
    ELSE LET i == FirstNamed(fs, mf, 1)
         IN  IF i = 0 THEN fs
             ELSE [fs EXCEPT ![i] = [@ EXCEPT !.Name = "_msg"]]

(***************************************************************************)
(* bufio.Scanner: what one sc.Scan() call yields.                          *)
(***************************************************************************)
Nil == "nil"
ErrTooLong == "bufio.ErrTooLong"
ErrIO == "io error"
ErrGzip == "cannot read gzipped _bulk request"
ErrCommandTooLong == "cannot read command, since its size exceeds maxLineSizeBytes"
ErrUnexpectedCommand == "unexpected command"
ErrMessageTooLong == "cannot read log message, since its size exceeds maxLineSizeBytes"
ErrMissingMessage == "missing log message after the command"
ErrBadJSON == "cannot parse json-encoded log entry"
ErrBadTimestamp == "cannot parse timestamp"

\* Scan() = true with sc.Bytes() = line, or Scan() = false with sc.Err() = err
Scanned(line) == [ok |-> TRUE, err |-> Nil, line |-> line]
ScanFailed(err) == [ok |-> FALSE, err |-> err, line |-> EmptyLine]
NoScan == [ok |-> FALSE, err |-> "no scan", line |-> EmptyLine]

ScanFailures == {ScanFailed(e) : e \in {Nil, ErrTooLong, ErrIO}}

Contains(text, tok) == \E i \in DOMAIN text : text[i] = tok

(***************************************************************************)
(* State of one /_bulk request.                                            *)
(***************************************************************************)
VARIABLES
    pc,                 \* "start", "awaitCommand", "awaitDocument", "returned", "done"
    isDebug,            \* the debug query arg
    timeField,          \* the _time_field query arg, "_time" by default
    lr,                 \* the rows of the request's LogRows, by line-pair number
    accepted,           \* the batches handed to vlstorage.MustAddRows, in call order
    rowsDroppedTotal,   \* the vl_rows_dropped_total counter
    rowsIngestedTotal,  \* the vl_rows_ingested_total counter
    adds,               \* the rowsIngestedTotal.Add calls: amount, and whether at return
    n,                  \* n of readBulkRequest
    nCheckpoint,        \* nCheckpoint of readBulkRequest
    retErr,             \* the error readBulkRequest returned
    pairs,              \* the command lines accepted so far
    calls,              \* the processLogMessage invocations so far
    blanks,             \* the blank lines skipped by the running readBulkLine call
    lastCmd,            \* the last Scan of the running readBulkLine call at line 214
    lastDoc,            \* the Scan of the running readBulkLine call at line 232
    lineCalls,          \* the readBulkLine calls started
    decCalls,           \* the wcr.DecConcurrency calls
    lrHeld,             \* the LogRows is checked out of its pool
    parserHeld,         \* a logjson parser is checked out of its pool
    response,           \* what was written to the client
    failed,             \* a readBulkLine call of the request returned an error
    deferred            \* the pooled objects readBulkRequest puts back by defer

requestVars ==
    <<pc, isDebug, timeField, lr, accepted, rowsDroppedTotal, rowsIngestedTotal,
      adds, n, nCheckpoint, retErr, pairs, calls, blanks, lastCmd, lastDoc,
      lineCalls, decCalls, lrHeld, parserHeld, response, failed, deferred>>

(***************************************************************************)
(* State of the components checked on their own: the fields of one decoded *)
(* log message on their way through readBulkLine, and one call of          *)
(* parseElasticsearchTimestamp.                                            *)
(***************************************************************************)
VARIABLES
    msgField,           \* the _msg_field query arg
    fieldsStage,        \* "idle", "parsed", "extracted", "failed", "renamed",
                        \* "processed"
    parsedFields,       \* p.Fields as p.ParseLogMessage left them
    fields,             \* p.Fields now
    extracted,          \* what extractTimestampFromFields returned
    sinkFields,         \* the fields processLogMessage was called with
    tsInput,            \* the argument of parseElasticsearchTimestamp
    tsResult,           \* what it returned
    units,              \* the concurrency units taken from the process-wide pool
    readers             \* per concurrent request: where it is, whether its
                        \* reader holds a unit, the readBulkLine calls it made,
                        \* whether it called DecConcurrency holding no unit

fieldVars == <<msgField, fieldsStage, parsedFields, fields, extracted, sinkFields>>

tsVars == <<tsInput, tsResult>>

poolVars == <<units, readers>>

otherVars == <<fieldVars, tsVars, poolVars>>

vars == <<requestVars, fieldVars, tsVars, poolVars>>

\* the _time_field query args tried
TimeFieldArgs == {"", "ts"}

InitRequest ==
    /\ pc = "start"
    /\ isDebug \in BOOLEAN
    /\ timeField \in {IF tf # "" THEN tf ELSE "_time" : tf \in TimeFieldArgs}
    /\ lr = <<>>
    /\ accepted = <<>>
    /\ rowsDroppedTotal = 0
    /\ rowsIngestedTotal = 0
    /\ adds = <<>>
    /\ n = 0
    /\ nCheckpoint = 0
    /\ retErr = Nil
    /\ pairs = 0
    /\ calls = 0
    /\ blanks = 0
    /\ lastCmd = NoScan
    /\ lastDoc = NoScan
    /\ lineCalls = 0
    /\ decCalls = 0
    /\ lrHeld = FALSE
    /\ parserHeld = FALSE
    /\ response = [kind |-> "none", n |-> 0]
    /\ failed = FALSE
    /\ deferred = {}

\* no log message is on its way, no timestamp is being parsed
NoExtract == [err |-> FALSE, now |-> FALSE, nanos |-> Zero, fields |-> <<>>]
NoParse == [branch |-> "none", err |-> FALSE, nanos |-> Zero]

FieldsIdle ==
    /\ msgField = ""
    /\ fieldsStage = "idle"
    /\ parsedFields = <<>>
    /\ fields = <<>>
    /\ extracted = NoExtract
    /\ sinkFields = <<>>

TimestampIdle ==
    /\ tsInput = <<>>
    /\ tsResult = NoParse

Requests == 1..MaxRequests

PoolIdle ==
    /\ units = 0
    /\ readers = [r \in Requests |-> [pc |-> "idle", holding |-> FALSE, attempts |-> 0,
                                 releasedIdle |-> FALSE]]

Init == InitRequest /\ FieldsIdle /\ TimestampIdle /\ PoolIdle


(***************************************************************************)
(* The batch (logstorage.LogRows) and processLogMessage.                   *)
(***************************************************************************)
\* lr.NeedFlush(): the batch holds enough rows
NeedFlush(rows) == Len(rows) >= FlushRows

\* lr.MustAdd(tenantID, timestamp, fields)
MustAdd(rows, row) == Append(rows, row)

\* processLogMessage without the ResetKeepSettings that follows MustAddRows
processLogMessageKeepsFlushed(b, row, debug) ==
    LET added == MustAdd(b.lr, row)
    IN  IF debug
        THEN [lr |-> <<>>, accepted |-> b.accepted, dropped |-> b.dropped + 1]
        ELSE IF NeedFlush(added)
        THEN [lr |-> added, accepted |-> Append(b.accepted, added),
              dropped |-> b.dropped]
        ELSE [lr |-> added, accepted |-> b.accepted, dropped |-> b.dropped]

\* processLogMessage without the ResetKeepSettings of the debug branch
processLogMessageKeepsDebug(b, row, debug) ==
    LET added == MustAdd(b.lr, row)
    IN  IF debug
        THEN [lr |-> added, accepted |-> b.accepted, dropped |-> b.dropped + 1]
        ELSE IF NeedFlush(added)
        THEN [lr |-> <<>>, accepted |-> Append(b.accepted, added),
              dropped |-> b.dropped]
        ELSE [lr |-> added, accepted |-> b.accepted, dropped |-> b.dropped]

\* processLogMessage that tests NeedFlush before MustAdd
processLogMessageFlushFirst(b, row, debug) ==
    IF debug
    THEN [lr |-> <<>>, accepted |-> b.accepted, dropped |-> b.dropped + 1]
    ELSE IF NeedFlush(b.lr)
    THEN [lr |-> MustAdd(<<>>, row), accepted |-> Append(b.accepted, b.lr),
          dropped |-> b.dropped]
    ELSE [lr |-> MustAdd(b.lr, row), accepted |-> b.accepted,
          dropped |-> b.dropped]

\* the closure processLogMessage of RequestHandler, on
\* b = [lr, accepted, dropped]: the batch, the accept calls, the drop counter
processLogMessage(b, row, debug) ==
    LET added == MustAdd(b.lr, row)
    IN  IF debug
        THEN [lr |-> <<>>, accepted |-> b.accepted, dropped |-> b.dropped + 1]
        ELSE IF NeedFlush(added)
        THEN [lr |-> <<>>, accepted |-> Append(b.accepted, added),
              dropped |-> b.dropped]
        ELSE [lr |-> added, accepted |-> b.accepted, dropped |-> b.dropped]

(***************************************************************************)
(* readBulkLine's decisions.                                               *)
(***************************************************************************)
\* IsCommand that knows "create" alone
IsCommandCreateOnly(text) == Contains(text, TokCreate)

\* the command must be "create" or "index"
IsCommand(text) == Contains(text, TokCreate) \/ Contains(text, TokIndex)

\* CommandScanError with the two ends of the stream collapsed
CommandScanErrorCollapsed(err) ==
    IF err = Nil THEN ErrMissingMessage
    ELSE IF err = ErrTooLong THEN ErrCommandTooLong
    ELSE err

\* what readBulkLine returns when the Scan for the command is false
CommandScanError(err) ==
    IF err = Nil THEN Nil
    ELSE IF err = ErrTooLong THEN ErrCommandTooLong
    ELSE err

\* what readBulkLine returns when the Scan for the log message is false
DocumentScanError(err) ==
    IF err = Nil THEN ErrMissingMessage
    ELSE IF err = ErrTooLong THEN ErrMessageTooLong
    ELSE err

(***************************************************************************)
(* readBulkRequest's loop after readBulkLine returned (ok, err).           *)
(***************************************************************************)
\* LoopDone that ends the loop at the end of the stream alone
LoopDoneAtEndOnly(ok, err) == err = Nil /\ ~ok

\* LoopDone without `|| !ok`: the loop goes on after the end of the stream
LoopDoneOnErrorOnly(ok, err) == err # Nil

\* the loop ends
LoopDone(ok, err) == err # Nil \/ ~ok

\* NextCount that counts the failed attempt as well
NextCountAlways(cnt, ok, err) == cnt + 1

\* n after the attempt
NextCount(cnt, ok, err) == IF LoopDone(ok, err) THEN cnt ELSE cnt + 1

\* `if batchSize := n - nCheckpoint; n >= 1000`
CheckpointDue(cnt, checkpoint) == cnt >= CheckpointRows

\* NextCheckpoint without `nCheckpoint = n`
NextCheckpointStale(cnt, checkpoint) == checkpoint

\* nCheckpoint after a row was counted
NextCheckpoint(cnt, checkpoint) ==
    IF CheckpointDue(cnt, checkpoint) THEN cnt ELSE checkpoint

\* the rowsIngestedTotal.Add calls of one attempt that left the count at cnt
AddsOf(cnt, checkpoint, ok, err) ==
    IF LoopDone(ok, err)
    THEN <<[amount |-> cnt - checkpoint, final |-> TRUE]>>
    ELSE IF CheckpointDue(cnt, checkpoint)
    THEN <<[amount |-> cnt - checkpoint, final |-> FALSE]>>
    ELSE <<>>

RECURSIVE SumAmounts(_)
SumAmounts(as) ==
    IF as = <<>> THEN 0 ELSE Head(as).amount + SumAmounts(Tail(as))

\* DecConcurrencyCalls with wcr.DecConcurrency() moved below the return
DecConcurrencyCallsAfterReturn(ok, err) == IF LoopDone(ok, err) THEN 0 ELSE 1

\* the wcr.DecConcurrency() calls that follow a readBulkLine call
DecConcurrencyCalls(ok, err) == 1

\* lines 190-199: DecConcurrency, then return (n, err) or count the row
\* cmd and doc are the Scans the call made
AfterReadBulkLine(ok, err, cmd, doc) ==
    LET cnt == NextCount(n, ok, err)
        new == AddsOf(cnt, nCheckpoint, ok, err)
    IN  /\ decCalls' = decCalls + DecConcurrencyCalls(ok, err)
        /\ n' = cnt
        /\ adds' = adds \o new
        /\ rowsIngestedTotal' = rowsIngestedTotal + SumAmounts(new)
        /\ failed' = (failed \/ err # Nil)
        /\ deferred' = IF LoopDone(ok, err) THEN {} ELSE deferred
        /\ IF LoopDone(ok, err)
           THEN /\ pc' = "returned"
                /\ retErr' = err
                /\ lastCmd' = cmd
                /\ lastDoc' = doc
                /\ UNCHANGED <<nCheckpoint, lineCalls, blanks>>
           ELSE /\ pc' = "awaitCommand"
                /\ nCheckpoint' = NextCheckpoint(cnt, nCheckpoint)
                /\ lineCalls' = lineCalls + 1
                /\ blanks' = 0
                /\ lastCmd' = NoScan
                /\ lastDoc' = NoScan
                /\ UNCHANGED retErr


(***************************************************************************)
(* RequestHandler, path "/_bulk", up to the first Scan.                    *)
(***************************************************************************)
\* logstorage.GetTenantIDFromRequest fails: httpserver.Errorf, return true
StartBadTenant ==
    /\ pc = "start"
    /\ pc' = "done"
    /\ response' = [kind |-> "error", n |-> 0]
    /\ UNCHANGED <<isDebug, timeField, lr, accepted, rowsDroppedTotal,
                   rowsIngestedTotal, adds, n, nCheckpoint, retErr, pairs, calls,
                   blanks, lastCmd, lastDoc, lineCalls, decCalls, lrHeld,
                   parserHeld, failed, deferred,
                   otherVars>>

\* Content-Encoding: gzip and common.GetGzipReader fails:
\* readBulkRequest returns (0, err) before its loop
StartBadGzip ==
    /\ pc = "start"
    /\ pc' = "returned"
    /\ lrHeld' = TRUE
    /\ retErr' = ErrGzip
    /\ UNCHANGED <<isDebug, timeField, lr, accepted, rowsDroppedTotal,
                   rowsIngestedTotal, adds, n, nCheckpoint, pairs, calls, blanks,
                   lastCmd, lastDoc, lineCalls, decCalls, parserHeld, response, failed, deferred,
                   otherVars>>

\* the request enters the loop of readBulkRequest and its first readBulkLine
StartReading ==
    /\ pc = "start"
    /\ pc' = "awaitCommand"
    /\ lrHeld' = TRUE
    /\ lineCalls' = 1
    /\ \E isGzip \in BOOLEAN :
         deferred' = {"wcr", "lineBuffer"} \cup (IF isGzip THEN {"gzipReader"} ELSE {})
    /\ UNCHANGED <<isDebug, timeField, lr, accepted, rowsDroppedTotal,
                   rowsIngestedTotal, adds, n, nCheckpoint, retErr, pairs, calls,
                   blanks, lastCmd, lastDoc, decCalls, parserHeld, response, failed, otherVars>>

(***************************************************************************)
(* readBulkLine: the Scan for the command (line 214).                      *)
(***************************************************************************)
\* Scan() is false: the stream ended, or the scanner failed
CommandScanFails ==
    /\ pc = "awaitCommand"
    /\ \E out \in ScanFailures :
         AfterReadBulkLine(FALSE, CommandScanError(out.err), out, NoScan)
    /\ UNCHANGED <<isDebug, timeField, lr, accepted, rowsDroppedTotal, pairs,
                   calls, lrHeld, parserHeld, response, otherVars>>

\* CommandBlank without the loop `for len(line) == 0`: the empty line goes to
\* the test for "create" and "index"
CommandBlankFails ==
    /\ pc = "awaitCommand"
    /\ blanks < MaxBlank
    /\ \E line \in Lines :
         /\ Len(line.text) = 0
         /\ AfterReadBulkLine(FALSE, ErrUnexpectedCommand, Scanned(line), NoScan)
    /\ UNCHANGED <<isDebug, timeField, lr, accepted, rowsDroppedTotal, pairs,
                   calls, lrHeld, parserHeld, response, otherVars>>

\* an empty line: the loop scans again
CommandBlank ==
    /\ pc = "awaitCommand"
    /\ blanks < MaxBlank
    /\ \E line \in Lines :
         /\ Len(line.text) = 0
         /\ lastCmd' = Scanned(line)
    /\ blanks' = blanks + 1
    /\ UNCHANGED <<pc, isDebug, timeField, lr, accepted, rowsDroppedTotal,
                   rowsIngestedTotal, adds, n, nCheckpoint, retErr, pairs, calls,
                   lastDoc, lineCalls, decCalls, lrHeld, parserHeld, response, failed, deferred,
                   otherVars>>

\* a line that is no command
CommandUnexpected ==
    /\ pc = "awaitCommand"
    /\ \E line \in Lines :
         /\ Len(line.text) # 0
         /\ ~IsCommand(line.text)
         /\ AfterReadBulkLine(FALSE, ErrUnexpectedCommand, Scanned(line), NoScan)
    /\ UNCHANGED <<isDebug, timeField, lr, accepted, rowsDroppedTotal, pairs,
                   calls, lrHeld, parserHeld, response, otherVars>>

\* a command: readBulkLine goes on to the log message
CommandRead ==
    /\ pc = "awaitCommand"
    /\ pairs < MaxRows
    /\ \E line \in Lines :
         /\ Len(line.text) # 0
         /\ IsCommand(line.text)
         /\ lastCmd' = Scanned(line)
    /\ pc' = "awaitDocument"
    /\ pairs' = pairs + 1
    /\ UNCHANGED <<isDebug, timeField, lr, accepted, rowsDroppedTotal,
                   rowsIngestedTotal, adds, n, nCheckpoint, retErr, calls, blanks,
                   lastDoc, lineCalls, decCalls, lrHeld, parserHeld, response, failed, deferred,
                   otherVars>>

(***************************************************************************)
(* readBulkLine: the Scan for the log message (line 232) and its decoding. *)
(***************************************************************************)
\* Scan() is false: the stream ended after the command, or the scanner failed
DocumentScanFails ==
    /\ pc = "awaitDocument"
    /\ \E out \in ScanFailures :
         AfterReadBulkLine(FALSE, DocumentScanError(out.err), lastCmd, out)
    /\ UNCHANGED <<isDebug, timeField, lr, accepted, rowsDroppedTotal, pairs,
                   calls, lrHeld, parserHeld, response, otherVars>>

\* p.ParseLogMessage fails; the parser is not put back
DocumentBadJSON ==
    /\ pc = "awaitDocument"
    /\ \E line \in Lines :
         /\ ~line.json.valid
         /\ AfterReadBulkLine(FALSE, ErrBadJSON, lastCmd, Scanned(line))
    /\ parserHeld' = TRUE
    /\ UNCHANGED <<isDebug, timeField, lr, accepted, rowsDroppedTotal, pairs,
                   calls, lrHeld, response, otherVars>>

\* extractTimestampFromFields fails; the parser is not put back
DocumentBadTimestamp ==
    /\ pc = "awaitDocument"
    /\ \E line \in Lines :
         /\ line.json.valid
         /\ extractTimestampFromFields(timeField, line.json.fields).err
         /\ AfterReadBulkLine(FALSE, ErrBadTimestamp, lastCmd, Scanned(line))
    /\ parserHeld' = TRUE
    /\ UNCHANGED <<isDebug, timeField, lr, accepted, rowsDroppedTotal, pairs,
                   calls, lrHeld, response, otherVars>>

\* the row is decoded and handed to processLogMessage; the parser is put back.
\* A row is kept by the number of its line-pair: updateMessageFieldName and
\* the clearing of the time field change its fields alone.
DocumentDecoded ==
    /\ pc = "awaitDocument"
    /\ \E line \in Lines :
         /\ line.json.valid
         /\ ~extractTimestampFromFields(timeField, line.json.fields).err
         /\ AfterReadBulkLine(TRUE, Nil, lastCmd, Scanned(line))
    /\ LET b == processLogMessage(
                    [lr |-> lr, accepted |-> accepted, dropped |-> rowsDroppedTotal],
                    pairs, isDebug)
       IN  /\ lr' = b.lr
           /\ accepted' = b.accepted
           /\ rowsDroppedTotal' = b.dropped
    /\ calls' = calls + 1
    /\ UNCHANGED <<isDebug, timeField, pairs, lrHeld, parserHeld, response, otherVars>>

(***************************************************************************)
(* RequestHandler after readBulkRequest returned (lines 139-151).          *)
(***************************************************************************)
\* FinalFlush with the test of err inverted
FinalFlushInverted(err) == err # Nil

\* the final flush is made
FinalFlush(err) == err = Nil

\* err != nil: logger.Warnf and return true
FinishWithError ==
    /\ pc = "returned"
    /\ ~FinalFlush(retErr)
    /\ pc' = "done"
    /\ UNCHANGED <<isDebug, timeField, lr, accepted, rowsDroppedTotal,
                   rowsIngestedTotal, adds, n, nCheckpoint, retErr, pairs, calls,
                   blanks, lastCmd, lastDoc, lineCalls, decCalls, lrHeld,
                   parserHeld, response, failed, deferred,
                   otherVars>>

\* vlstorage.MustAddRows(lr), logstorage.PutLogRows(lr), WriteBulkResponse
FinishOK ==
    /\ pc = "returned"
    /\ FinalFlush(retErr)
    /\ pc' = "done"
    /\ accepted' = Append(accepted, lr)
    /\ lrHeld' = FALSE
    /\ response' = [kind |-> "bulk", n |-> n]
    /\ UNCHANGED <<isDebug, timeField, lr, rowsDroppedTotal, rowsIngestedTotal,
                   adds, n, nCheckpoint, retErr, pairs, calls, blanks, lastCmd,
                   lastDoc, lineCalls, decCalls, parserHeld, failed, deferred,
                   otherVars>>

Next ==
    \/ StartBadTenant
    \/ StartBadGzip
    \/ StartReading
    \/ CommandScanFails
    \/ CommandBlank
    \/ CommandUnexpected
    \/ CommandRead
    \/ DocumentScanFails
    \/ DocumentBadJSON
    \/ DocumentBadTimestamp
    \/ DocumentDecoded
    \/ FinishWithError
    \/ FinishOK

Spec == Init /\ [][Next]_vars

\* the request's goroutine keeps running and every Scan of the finite stream
\* returns
SpecLive == Spec /\ WF_vars(Next)


(***************************************************************************)
(* Concurrent requests and the concurrency-limited reader                  *)
(* (writeconcurrencylimiter.Reader): readBulkRequest gets a reader, each   *)
(* readBulkLine call reads through it, DecConcurrency follows every call   *)
(* and the deferred PutReader ends the request.  The reader takes a unit   *)
(* before a physical read unless it holds one, and gives back the unit it  *)
(* holds, if any, on DecConcurrency and on PutReader.                      *)
(***************************************************************************)
RequestFixed == InitRequest /\ ~isDebug /\ timeField = "_time"

InitPool == RequestFixed /\ FieldsIdle /\ TimestampIdle /\ PoolIdle

\* DecConcurrency that gives a unit back whether or not the reader holds one
ReleaseUnitAlways(held, holding) == held - 1

\* the units taken after the reader's DecConcurrency
ReleaseUnit(held, holding) == IF holding THEN held - 1 ELSE held

\* the units taken after the reader went into a physical read
AcquireUnit(held, holding) == IF holding THEN held ELSE held + 1

\* Read waits while no unit is free and the reader holds none
CanRead(held, holding) == holding \/ held < PoolCapacity

\* writeconcurrencylimiter.GetReader(r)
GetReader(r) ==
    /\ readers[r].pc = "idle"
    /\ readers' = [readers EXCEPT ![r].pc = "reading"]
    /\ UNCHANGED <<units, requestVars, fieldVars, tsVars>>

\* a Scan of readBulkLine finds no full line in its buffer: wcr.Read
PhysicalRead(r) ==
    /\ readers[r].pc = "reading"
    /\ CanRead(units, readers[r].holding)
    /\ units' = AcquireUnit(units, readers[r].holding)
    /\ readers' = [readers EXCEPT ![r].holding = TRUE]
    /\ UNCHANGED <<requestVars, fieldVars, tsVars>>

\* readBulkLine returns a row, with or without a physical read made:
\* wcr.DecConcurrency(), and the loop goes on
AttemptDecoded(r) ==
    /\ readers[r].pc = "reading"
    /\ readers[r].attempts < MaxAttempts
    /\ units' = ReleaseUnit(units, readers[r].holding)
    /\ readers' = [readers EXCEPT ![r].holding = FALSE,
                                  ![r].attempts = @ + 1,
                                  ![r].releasedIdle = @ \/ ~readers[r].holding]
    /\ UNCHANGED <<requestVars, fieldVars, tsVars>>

\* readBulkLine returns an error or the end of the stream:
\* wcr.DecConcurrency(), and readBulkRequest returns
AttemptEnds(r) ==
    /\ readers[r].pc = "reading"
    /\ units' = ReleaseUnit(units, readers[r].holding)
    /\ readers' = [readers EXCEPT ![r].holding = FALSE,
                                  ![r].pc = "returning",
                                  ![r].releasedIdle = @ \/ ~readers[r].holding]
    /\ UNCHANGED <<requestVars, fieldVars, tsVars>>

\* the deferred writeconcurrencylimiter.PutReader(wcr)
PutReader(r) ==
    /\ readers[r].pc = "returning"
    /\ units' = ReleaseUnit(units, readers[r].holding)
    /\ readers' = [readers EXCEPT ![r].holding = FALSE, ![r].pc = "done"]
    /\ UNCHANGED <<requestVars, fieldVars, tsVars>>

NextPool ==
    \E r \in Requests :
        \/ GetReader(r)
        \/ PhysicalRead(r)
        \/ AttemptDecoded(r)
        \/ AttemptEnds(r)
        \/ PutReader(r)

SpecPool == InitPool /\ [][NextPool]_vars

(***************************************************************************)
(* One call of parseElasticsearchTimestamp, on values of every shape:      *)
(* shorter than, as long as and longer than YYYY-MM-DD, with and without   *)
(* '-' as fifth character, and integers around the int64 guards.           *)
(***************************************************************************)
TsHeads ==
    { <<>>,
      <<"1">>,
      <<"-", "9">>,
      <<"2", "0", "2", "4", "-">>,
      <<"2", "0", "2", "4", "5">>,
      <<"+", "2", "0", "2", "4">>,
      <<"2", "0", "2", "-", "4">> }

TsTails ==
    { <<>>,
      <<"x">>,
      <<"0", "1", "1", "5">>,
      <<"0", "1", "-", "1">>,
      <<"0", "1", "-", "1", "5">>,
      <<"1", "3", "-", "1", "5">>,
      <<"0", "1", "-", "1", "5", "5">>,
      <<"0", "1", "-", "1", "5", "T", "1", "0", ":", "0", "0", ":", "0", "0", "Z">>,
      <<"0", "2", "-", "3", "0", "T", "1", "0", ":", "0", "0", ":", "0", "0", "Z">>,
      <<"0", "1", "-", "1", "5", "T", "1", "0", ":", "0", "0", ":", "0", "0", ".", "5", "+", "0", "1", ":", "0", "0">>,
      <<"0", "1", "-", "1", "5", " ", "1", "0", ":", "0", "0", ":", "0", "0", "Z">> }

\* 1700000000000, the guards of the millisecond branch and those of int64
TsIntegers ==
    { <<"1", "7", "0", "0", "0", "0", "0", "0", "0", "0", "0", "0", "0">>,
      MaxMillisMag,
      VTooBig,
      <<"-">> \o MaxMillisMag,
      <<"-">> \o VTooBig,
      <<"0", "0">> \o MaxMillisMag,
      <<"9", "2", "2", "3", "3", "7", "2", "0", "3", "6", "8", "5", "4", "7", "7", "5">>,
      MaxInt64Mag,
      MinInt64Mag,
      <<"-">> \o MinInt64Mag,
      <<"-", "0">>,
      <<"0">> }

TsInputs == {h \o t : h \in TsHeads, t \in TsTails} \cup TsIntegers

InitTimestamp ==
    /\ RequestFixed /\ FieldsIdle /\ PoolIdle
    /\ tsInput \in TsInputs
    /\ tsResult = NoParse

ParseTimestamp ==
    /\ tsResult = NoParse
    /\ tsResult' = parseElasticsearchTimestamp(tsInput)
    /\ UNCHANGED <<tsInput, requestVars, fieldVars, poolVars>>

NextTimestamp == ParseTimestamp

SpecTimestamp == InitTimestamp /\ [][NextTimestamp]_vars

(***************************************************************************)
(* The fields of one log message from p.ParseLogMessage to                 *)
(* processLogMessage (readBulkLine, lines 242-254).                        *)
(***************************************************************************)
FieldNames == {"_time", "ts", "m"}
FieldValues == {V17, VBad, VDate}
MsgFieldArgs == {"", "m", "_time"}

FieldSet == {Fld(name, value) : name \in FieldNames, value \in FieldValues}

FieldLists == UNION {[1..k -> FieldSet] : k \in 0..MaxFields}

InitFields ==
    /\ InitRequest /\ ~isDebug
    /\ TimestampIdle /\ PoolIdle
    /\ msgField \in MsgFieldArgs
    /\ parsedFields \in FieldLists
    /\ fields = parsedFields
    /\ fieldsStage = "parsed"
    /\ extracted = NoExtract
    /\ sinkFields = <<>>

\* extractTimestampFromFields(timeField, p.Fields); on an error readBulkLine
\* returns
ExtractTimestamp ==
    /\ fieldsStage = "parsed"
    /\ LET res == extractTimestampFromFields(timeField, fields)
       IN  /\ extracted' = res
           /\ fields' = res.fields
           /\ fieldsStage' = IF res.err THEN "failed" ELSE "extracted"
    /\ UNCHANGED <<msgField, parsedFields, sinkFields, requestVars, tsVars, poolVars>>

\* updateMessageFieldName(msgField, p.Fields)
UpdateMessageField ==
    /\ fieldsStage = "extracted"
    /\ fields' = updateMessageFieldName(msgField, fields)
    /\ fieldsStage' = "renamed"
    /\ UNCHANGED <<msgField, parsedFields, extracted, sinkFields, requestVars,
                   tsVars, poolVars>>

\* processLogMessage(timestamp, p.Fields)
ProcessFields ==
    /\ fieldsStage = "renamed"
    /\ sinkFields' = fields
    /\ fieldsStage' = "processed"
    /\ UNCHANGED <<msgField, parsedFields, fields, extracted, requestVars,
                   tsVars, poolVars>>

NextFields == ExtractTimestamp \/ UpdateMessageField \/ ProcessFields

SpecFields == InitFields /\ [][NextFields]_vars

(***************************************************************************)
(* Measures of a run used by the properties.                               *)
(***************************************************************************)
Returned == pc \in {"returned", "done"}

\* readBulkLine failed to decode a line-pair
DecodeFailures ==
    {ErrUnexpectedCommand, ErrMissingMessage, ErrBadJSON, ErrBadTimestamp}

RECURSIVE SumLens(_)
SumLens(batches) ==
    IF batches = <<>> THEN 0 ELSE Len(Head(batches)) + SumLens(Tail(batches))

\* batches k.. hold exactly the rows next, next + 1, ... in this order:
\* the number of the last row, or -1 when they do not
RECURSIVE RunFrom(_, _, _)
RunFrom(batches, k, next) ==
    IF k > Len(batches) THEN next - 1
    ELSE IF \A j \in DOMAIN batches[k] : batches[k][j] = next + j - 1
    THEN RunFrom(batches, k + 1, next + Len(batches[k]))
    ELSE -1

\* the last row handed to the accept path, 0 when there is none
RECURSIVE LastAccepted(_, _)
LastAccepted(batches, k) ==
    IF k = 0 THEN 0
    ELSE IF batches[k] # <<>> THEN batches[k][Len(batches[k])]
    ELSE LastAccepted(batches, k - 1)

Increasing(rows) == \A i \in 1..(Len(rows) - 1) : rows[i] < rows[i + 1]

CeilDiv(a, b) == (a + b - 1) \div b

(***************************************************************************)
(* C1: a non-debug request that stops at a line-pair that fails to decode  *)
(* has handed every row decoded before the failure to                      *)
(* vlstorage.MustAddRows by the time RequestHandler returns.               *)
(***************************************************************************)
C1_RowsBeforeFailureAccepted ==
    (pc = "done" /\ ~isDebug /\ retErr \in DecodeFailures)
        => SumLens(accepted) = calls

(***************************************************************************)
(* C2: the n of readBulkRequest is the number of processLogMessage         *)
(* invocations, on a nil error as on an error; a line-pair that is being   *)
(* read or that failed has produced no row and has not been counted.       *)
(***************************************************************************)
C2_CountIsRowsProcessed ==
    /\ n = calls
    /\ (pc = "awaitDocument" => n = pairs - 1)
    /\ (Returned /\ lastDoc # NoScan => n = pairs - 1)
    /\ (Returned /\ lastDoc = NoScan => n = pairs)
    /\ (pc = "awaitCommand" => n = pairs)
    /\ (~isDebug => SumLens(accepted) + (IF pc = "done" /\ retErr = Nil THEN 0 ELSE Len(lr)) = n)

C2_Witness ==
    /\ pc = "returned"
    /\ retErr = ErrBadJSON
    /\ n = 2
    /\ pairs = 3

(***************************************************************************)
(* C3: a non-debug request of N well-formed line-pairs hands every row to  *)
(* the accept path exactly once, N rows over all accept calls, in at least *)
(* ceil(N / FlushRows) calls.                                              *)
(***************************************************************************)
C3_EveryRowAcceptedOnce ==
    (pc = "done" /\ ~isDebug /\ retErr = Nil)
        => /\ SumLens(accepted) = pairs
           /\ RunFrom(accepted, 1, 1) = pairs
           /\ Len(accepted) >= CeilDiv(pairs, FlushRows)

C3_Witness ==
    /\ pc = "done"
    /\ ~isDebug
    /\ retErr = Nil
    /\ pairs = 2 * FlushRows + 1
    /\ Len(accepted) = 3
    /\ Len(accepted[1]) = FlushRows
    /\ Len(accepted[3]) = 1

(***************************************************************************)
(* C4: every accept call hands over rows in stream order, all of them      *)
(* later in the stream than every row handed over before.                  *)
(***************************************************************************)
C4_AcceptedInLineOrder ==
    [][Len(accepted') > Len(accepted)
        => LET batch == accepted'[Len(accepted')]
           IN  /\ Len(accepted') = Len(accepted) + 1
               /\ SubSeq(accepted', 1, Len(accepted)) = accepted
               /\ Increasing(batch)
               /\ \A i \in DOMAIN batch :
                    /\ batch[i] > LastAccepted(accepted, Len(accepted))
                    /\ batch[i] <= pairs]_vars

C4_Witness ==
    /\ Len(accepted) = 3
    /\ accepted[2] # <<>>
    /\ accepted[3] # <<>>

(***************************************************************************)
(* C5: with the debug flag no accept call carries a row, the batch is      *)
(* empty between line-pairs, and rowsDroppedTotal has grown by the number  *)
(* of rows decoded: by N for a request of N decodable line-pairs.          *)
(***************************************************************************)
C5_DebugDropsEveryRow ==
    isDebug
        => /\ \A k \in DOMAIN accepted : accepted[k] = <<>>
           /\ lr = <<>>
           /\ rowsDroppedTotal = calls
           /\ (pc = "done" /\ retErr = Nil /\ lineCalls > 0
                 => rowsDroppedTotal = pairs /\ Len(accepted) = 1)

C5_Witness ==
    /\ isDebug
    /\ pc = "done"
    /\ retErr = Nil
    /\ pairs = 3
    /\ rowsDroppedTotal = 3
    /\ accepted = <<(<<>>)>>

(***************************************************************************)
(* C6: with the debug flag the dropped rows do not count toward            *)
(* rowsIngestedTotal: it does not change over the request.                 *)
(***************************************************************************)
C6_DebugIngestedUnchanged ==
    isDebug => rowsIngestedTotal = 0

(***************************************************************************)
(* C7: nCheckpoint <= n always; what was added to rowsIngestedTotal is     *)
(* nCheckpoint while the loop runs, every add being n - nCheckpoint, and   *)
(* is the returned n once readBulkRequest has returned.                    *)
(***************************************************************************)
C7_IngestedCountedOnce ==
    /\ nCheckpoint <= n
    /\ SumAmounts(adds) = rowsIngestedTotal
    /\ \A i \in DOMAIN adds : adds[i].amount >= 0
    /\ (pc \in {"awaitCommand", "awaitDocument"} => rowsIngestedTotal = nCheckpoint)
    /\ (Returned => rowsIngestedTotal = n)

C7_Witness ==
    /\ pc = "returned"
    /\ retErr = ErrBadTimestamp
    /\ n = CheckpointRows + 1
    /\ rowsIngestedTotal = CheckpointRows + 1

(***************************************************************************)
(* C8: an add to rowsIngestedTotal before the return is made only when     *)
(* 1000 rows have accumulated since the last checkpoint, so that a request *)
(* of N rows makes at most N / 1000 of them.                               *)
(***************************************************************************)
NonFinalAdds == {i \in DOMAIN adds : ~adds[i].final}

C8_CheckpointEvery1000 ==
    /\ \A i \in NonFinalAdds : adds[i].amount = CheckpointRows
    /\ Cardinality(NonFinalAdds) <= n \div CheckpointRows

(***************************************************************************)
(* C9: the stream ending where a command is awaited ends readBulkRequest   *)
(* with a nil error and the request with its response; the stream ending   *)
(* after a command ends it with the missing-log-message error.             *)
(***************************************************************************)
C9_EndOfStreamCases ==
    /\ lastCmd = ScanFailed(Nil)
         => /\ Returned
            /\ retErr = Nil
            /\ (pc = "done" => response = [kind |-> "bulk", n |-> n])
    /\ lastDoc = ScanFailed(Nil)
         => /\ Returned
            /\ retErr = ErrMissingMessage
            /\ lastCmd.ok /\ IsCommand(lastCmd.line.text)

C9_Witness ==
    /\ pc = "returned"
    /\ lastDoc = ScanFailed(Nil)
    /\ pairs = 2
    /\ n = 1

(***************************************************************************)
(* C10: a non-empty command line holding neither "create" nor "index"      *)
(* fails with the unexpected-command error, no log message line is read    *)
(* and no row is made of it; a line holding either is taken as a command.  *)
(***************************************************************************)
C10_CommandCheck ==
    lastCmd.ok /\ Len(lastCmd.line.text) # 0
        => IF ~Contains(lastCmd.line.text, TokCreate) /\ ~Contains(lastCmd.line.text, TokIndex)
           THEN /\ Returned
                /\ retErr = ErrUnexpectedCommand
                /\ lastDoc = NoScan
                /\ ~parserHeld
                /\ calls = pairs
           ELSE /\ retErr # ErrUnexpectedCommand
                /\ pc = "awaitDocument" \/ (Returned /\ lastDoc # NoScan)

C10_Witness ==
    /\ pc = "returned"
    /\ lastCmd = Scanned(Line(<<TokOther>>, Doc(<<>>)))
    /\ retErr = ErrUnexpectedCommand
    /\ n = 1

(***************************************************************************)
(* C11: once a readBulkLine call has returned an error, the request scans  *)
(* no further line and hands no further row to processLogMessage, whatever *)
(* the rest of the stream holds.                                           *)
(***************************************************************************)
C11_FailureEndsReading ==
    [][failed
        => /\ Returned
           /\ retErr # Nil
           /\ pairs' = pairs
           /\ calls' = calls
           /\ n' = n
           /\ blanks' = blanks
           /\ lastCmd' = lastCmd
           /\ lastDoc' = lastDoc
           /\ lineCalls' = lineCalls
           /\ lr' = lr]_vars

C11_Witness ==
    /\ failed
    /\ pc = "done"
    /\ retErr = ErrBadJSON
    /\ n = 1
    /\ pairs = 2

(***************************************************************************)
(* C12: wcr.DecConcurrency is called once after every readBulkLine call,   *)
(* whatever the call returned: as many times as readBulkLine was called.   *)
(***************************************************************************)
C12_DecConcurrencyPerAttempt ==
    /\ pc \in {"awaitCommand", "awaitDocument"} => lineCalls = decCalls + 1
    /\ Returned => decCalls = lineCalls
    /\ pc = "start" => lineCalls = 0 /\ decCalls = 0

C12_Witness ==
    /\ pc = "returned"
    /\ retErr = ErrUnexpectedCommand
    /\ lineCalls = 3
    /\ decCalls = 3

ShapeBranch(s) ==
    IF Len(s) < 10 THEN "millis"
    ELSE IF s[5] # "-" THEN "millis"
    ELSE IF Len(s) = 10 THEN "date"
    ELSE "rfc3339"

BranchParses(branch, s) ==
    CASE branch = "millis" -> ~ParseInt(s).err /\ MillisInRange(ParseInt(s))
      [] branch = "date" -> ParseDateOK(s)
      [] branch = "rfc3339" -> ParseRFC3339OK(s)

C16_BranchByShape ==
    tsResult # NoParse
        => /\ tsResult.branch = ShapeBranch(tsInput)
           /\ tsResult.err = ~BranchParses(ShapeBranch(tsInput), tsInput)
           /\ tsResult.nanos.kind = "int" <=> (tsResult.err \/ tsResult.branch = "millis")

\* a date of 10 characters went to the date branch and parsed
C16_Witness ==
    /\ tsInput = VDate
    /\ tsResult.branch = "date"
    /\ ~tsResult.err

(***************************************************************************)
(* C17: in the millisecond branch an integer n is accepted exactly when    *)
(* MinInt64/1000000 <= n <= MaxInt64/1000000, the division truncating      *)
(* toward zero; an accepted n gives n * 1000000, which fits an int64; any  *)
(* other n gives an error.                                                 *)
(***************************************************************************)
\* m / 1000000 on magnitudes
Div1e6(mag) == SubSeq(mag, 1, Len(mag) - 6)

WithinMillis(r) ==
    ~DecLess(Div1e6(IF r.neg THEN MinInt64Mag ELSE MaxInt64Mag), r.mag)

C17_MillisGuards ==
    (tsResult.branch = "millis" /\ ~ParseInt(tsInput).err)
        => LET r == ParseInt(tsInput)
           IN  /\ ~tsResult.err <=> WithinMillis(r)
               /\ tsResult.err => tsResult.nanos = Zero
               /\ ~tsResult.err
                    => /\ tsResult.nanos.neg = r.neg
                       /\ tsResult.nanos.mag = Times1e6(r.mag)
                       /\ ~tsResult.nanos.overflow
                       /\ ~DecLess(IF r.neg THEN MinInt64Mag ELSE MaxInt64Mag,
                                   tsResult.nanos.mag)

\* the smallest integer accepted: -9223372036854 gives -9223372036854000000
C17_Witness ==
    /\ tsInput = <<"-">> \o MaxMillisMag
    /\ tsResult.branch = "millis"
    /\ ~tsResult.err
    /\ tsResult.nanos.neg
    /\ Len(tsResult.nanos.mag) = 19


(***************************************************************************)
(* Properties of the fields of one message (SpecFields).                   *)
(***************************************************************************)
HasNamed(fs, name) == \E i \in 1..Len(fs) : fs[i].Name = name

FirstIndex(fs, name) ==
    CHOOSE i \in 1..Len(fs) :
        fs[i].Name = name /\ \A j \in 1..(i - 1) : fs[j].Name # name

Extracted == fieldsStage \in {"extracted", "renamed", "processed"}

C15_FirstMatchOnly ==
    fieldsStage \in {"extracted", "renamed", "processed", "failed"} =>
        IF ~HasNamed(parsedFields, timeField)
        THEN ~extracted.err /\ extracted.now /\ extracted.fields = parsedFields
        ELSE LET i == FirstIndex(parsedFields, timeField)
                 r == parseElasticsearchTimestamp(parsedFields[i].Value)
             IN  IF r.err
                 THEN /\ extracted.err
                      /\ fieldsStage = "failed"
                      /\ extracted.fields = parsedFields
                      /\ fields = parsedFields
                 ELSE /\ ~extracted.err
                      /\ ~extracted.now
                      /\ extracted.nanos = r.nanos
                      /\ Len(extracted.fields) = Len(parsedFields)
                      /\ \A j \in 1..Len(parsedFields) :
                            j # i => extracted.fields[j] = parsedFields[j]

C15_Witness ==
    /\ fieldsStage = "extracted"
    /\ \E i, j \in 1..Len(parsedFields) :
          /\ i < j
          /\ parsedFields[i].Name = timeField
          /\ parsedFields[j].Name = timeField
          /\ parsedFields[i].Value = V17
          /\ parsedFields[j].Value = VBad
          /\ extracted.fields[j].Value = VBad

\* C18: updateMessageFieldName renames only the first field named as the
\* message field to "_msg" and keeps its value; every other field, later
\* fields of that name included, is unchanged; with an empty message field
\* name or without a match nothing changes.
C18_RenamesFirstMatch ==
    fieldsStage \in {"renamed", "processed"} =>
        LET before == extracted.fields
        IN  IF msgField = "" \/ ~HasNamed(before, msgField)
            THEN fields = before
            ELSE LET i == FirstIndex(before, msgField)
                 IN  /\ Len(fields) = Len(before)
                     /\ fields[i].Name = "_msg"
                     /\ fields[i].Value = before[i].Value
                     /\ \A j \in 1..Len(before) : j # i => fields[j] = before[j]

C18_Witness ==
    /\ fieldsStage = "renamed"
    /\ msgField # ""
    /\ \E i, j \in 1..Len(fields) :
          /\ i < j
          /\ extracted.fields[i].Name = msgField
          /\ extracted.fields[j].Name = msgField
          /\ fields[i].Name = "_msg"
          /\ fields[j].Name = msgField

\* C19: the fields handed to the sink are the decoded fields in the decoded
\* order: as many, and each at its position with its name or "_msg" and its
\* value or the empty value.
C19_SinkKeepsOrder ==
    fieldsStage = "processed" =>
        /\ Len(sinkFields) = Len(parsedFields)
        /\ \A i \in 1..Len(parsedFields) :
              /\ sinkFields[i].Name \in {parsedFields[i].Name, "_msg"}
              /\ sinkFields[i].Value \in {parsedFields[i].Value, <<>>}

C19_Witness ==
    /\ fieldsStage = "processed"
    /\ Len(sinkFields) = MaxFields
    /\ sinkFields[2].Name = "_msg"
    /\ sinkFields[3].Value = <<>>
    /\ sinkFields[1] = parsedFields[1]


(***************************************************************************)
(* C20 as stated: when the request is over every pooled object it took --  *)
(* the line buffer, the concurrency-limited reader, the gzip reader, the   *)
(* JSON parser and the LogRows -- is back in its pool.                     *)
(***************************************************************************)
C20_PooledObjectsReturned ==
    pc = "done" => ~lrHeld /\ ~parserHeld /\ deferred = {}


(***************************************************************************)
(* C21: an empty line scanned while a command is awaited is skipped: the   *)
(* call goes on awaiting a command and the rows made, the batch, the       *)
(* accept calls, the count, the counters and the error are what they were, *)
(* so empty lines before a command or after the last line-pair change no   *)
(* outcome.                                                                *)
(***************************************************************************)
C21_BlankLinesSkipped ==
    [][(pc = "awaitCommand" /\ lastCmd'.ok /\ Len(lastCmd'.line.text) = 0)
        => /\ pc' = "awaitCommand"
           /\ UNCHANGED <<lr, accepted, n, nCheckpoint, retErr, adds,
                          rowsIngestedTotal, rowsDroppedTotal, pairs, calls,
                          lineCalls, decCalls, lastDoc, response, failed>>]_vars

C21_Witness ==
    /\ pc = "returned"
    /\ retErr = Nil
    /\ blanks = MaxBlank
    /\ n = 2
    /\ ~lastCmd.ok
    /\ ~isDebug
    /\ Len(lr) = 2


(***************************************************************************)
(* C22 as stated: a request whose reading ended with an error of           *)
(* readBulkLine is answered with the bulk response that reports the count  *)
(* of decoded rows, as a request read to the end is.                       *)
(***************************************************************************)
C22_ErrorPathAcknowledged ==
    (pc = "done" /\ failed) => response = [kind |-> "bulk", n |-> n]


ScannedAtLeast ==
    2 * calls + blanks
      + (IF lastCmd.ok /\ Len(lastCmd.line.text) # 0 THEN 1 ELSE 0)
      + (IF lastDoc.ok THEN 1 ELSE 0)

C24_ReadBulkRequestTerminates ==
    /\ [](lineCalls <= ScannedAtLeast + 1)
    /\ [](Returned /\ lineCalls > 0 => lineCalls = calls + 1)
    /\ <>Returned

C24_Witness ==
    /\ pc = "returned"
    /\ retErr = Nil
    /\ blanks = 0
    /\ lineCalls = 4
    /\ ScannedAtLeast = 6
    /\ isDebug

====
